---- MODULE Spec2Model ----
(***************************************************************************)
(* A model of cmd2/utils.py: the quote helpers, cast, which, is_text_file, *)
(* remove_duplicates and the natural sort.                                 *)
(*                                                                         *)
(* A Python str is a sequence of one-character strings; a bytes object is  *)
(* a sequence of integers 0..255.  A Python value is a record              *)
(* [typ |-> <type name>, v |-> <payload>].                                 *)
(*                                                                         *)
(* The state is one caller's view of a series of calls:                    *)
(*   args    the arguments the caller passed                               *)
(*   ops     the names of the functions called so far                      *)
(*   vals    the values those calls returned                               *)
(*   exc     the exception that escaped the last call, or "none"           *)
(*   stdout  the number of diagnostic lines printed                        *)
(*   env     what lies outside the process: the subprocess and the file    *)
(***************************************************************************)
EXTENDS Integers, Sequences, FiniteSets, TLC

VARIABLES args, ops, vals, exc, stdout, env

vars == <<args, ops, vals, exc, stdout, env>>

----------------------------------------------------------------------------
(* Bounds *)

\* longest string handed to the quote helpers
MaxLen == 5
\* how many quote helpers are chained on one string
MaxCalls == 2
\* longest string handed to cast as `new`
MaxNewLen == 3
\* longest string handed to natural_keys
MaxSplitLen == 4
\* size of the largest list handed to natural_sort: its strings plus their
\* characters
MaxSortSize == 7
\* remove_duplicates is run on lists of at most MaxDupLen items of 1..MaxItem
MaxItem == 3
MaxDupLen == 4
\* longest file content, and longest output of the which program, in bytes
MaxFileLen == 3

----------------------------------------------------------------------------
(* Characters and strings *)

DQ == "\""
SQ == "'"
SP == " "

\* constants.QUOTES: the single and the double quote (see the docstring of
\* strip_quotes)
QUOTES == {DQ, SQ}

QuoteAlphabet == {DQ, SQ, SP, "a"}

CastAlphabet ==
  {"o", "n", "f", "y", "t", "O", "N", "F", "0", "1", "2", "x", "-", SP}

KeyAlphabet == {"a", "1", "-"}

SortAlphabet == {"a", "A", "1", "2"}

\* line feed, "A", a continuation byte, a two-byte lead byte, an invalid byte
ByteAlphabet == {10, 65, 169, 195, 255}

Strs(A, n) == UNION {[1..k -> A] : k \in 0..n}

\* the list of strings written as one string, each string followed by ";"
RECURSIVE Words(_, _)
Words(word, flat) ==
  IF Len(flat) = 0 THEN <<>>
  ELSE IF flat[1] = ";" THEN <<word>> \o Words(<<>>, Tail(flat))
  ELSE Words(Append(word, flat[1]), Tail(flat))

\* the lists of strings over A of size n at most
Lists(A, n) ==
  {Words(<<>>, flat) :
     flat \in {f \in Strs(A \cup {";"}, n) : Len(f) = 0 \/ f[Len(f)] = ";"}}

\* x in s
Contains(s, c) == \E i \in 1..Len(s) : s[i] = c

\* s[1:-1]
Inner(s) == SubSeq(s, 2, Len(s) - 1)

----------------------------------------------------------------------------
(* is_quoted, quote_string_if_needed, strip_quotes *)

\* is_quoted with the comparison of the two ends left out
is_quoted_any_pair(arg) ==
  /\ Len(arg) > 1
  /\ arg[1] \in QUOTES
  /\ arg[Len(arg)] \in QUOTES

is_quoted(arg) ==
  /\ Len(arg) > 1
  /\ arg[1] = arg[Len(arg)]
  /\ arg[1] \in QUOTES

\* quote_string_if_needed without the look for a double quote in arg
quote_string_always_double(arg) ==
  IF is_quoted(arg) \/ ~Contains(arg, SP)
    THEN arg
    ELSE <<DQ>> \o arg \o <<DQ>>

quote_string_if_needed(arg) ==
  IF is_quoted(arg) \/ ~Contains(arg, SP)
    THEN arg
    ELSE LET quote == IF Contains(arg, DQ) THEN SQ ELSE DQ
         IN  <<quote>> \o arg \o <<quote>>

\* strip_quotes with arg[1:] for arg[1:-1]
strip_quotes_keep_last(arg) ==
  IF is_quoted(arg) THEN Tail(arg) ELSE arg

strip_quotes(arg) ==
  IF is_quoted(arg) THEN Inner(arg) ELSE arg

----------------------------------------------------------------------------
(* The caller of the quote helpers: each call is applied to the value the  *)
(* previous call returned (the first one to the argument).                 *)

NoEnv == [kind |-> "none"]

InitStrings ==
  /\ args \in {<<s>> : s \in Strs(QuoteAlphabet, MaxLen)}
  /\ ops = <<>>
  /\ vals = <<>>
  /\ exc = "none"
  /\ stdout = 0
  /\ env = NoEnv

Cur == IF Len(vals) = 0 THEN args[1] ELSE vals[Len(vals)]

CallQuoteStringIfNeeded ==
  /\ Len(ops) < MaxCalls
  /\ ops' = Append(ops, "quote_string_if_needed")
  /\ vals' = Append(vals, quote_string_if_needed(Cur))
  /\ UNCHANGED <<args, exc, stdout, env>>

CallStripQuotes ==
  /\ Len(ops) < MaxCalls
  /\ ops' = Append(ops, "strip_quotes")
  /\ vals' = Append(vals, strip_quotes(Cur))
  /\ UNCHANGED <<args, exc, stdout, env>>

NextStrings == CallQuoteStringIfNeeded \/ CallStripQuotes

SpecStrings == InitStrings /\ [][NextStrings]_vars

----------------------------------------------------------------------------
(* Python values and the str operations cast and natural_keys rely on *)

BoolVal(b) == [typ |-> "bool", v |-> b]
IntVal(n) == [typ |-> "int", v |-> n]
StrVal(s) == [typ |-> "str", v |-> s]
None == [typ |-> "NoneType", v |-> "None"]

SameValue(a, b) == a.typ = b.typ /\ a.v = b.v

\* str.isspace on one character
IsSpace(c) == c = SP

\* the decimal digits among the characters of the model
IsDigit(c) == c \in {"0", "1", "2"}

DigitVal(c) == CASE c = "0" -> 0 [] c = "1" -> 1 [] c = "2" -> 2

\* str.lower on one character of the model
LowerChar(c) ==
  CASE c = "A" -> "a"
    [] c = "F" -> "f"
    [] c = "N" -> "n"
    [] c = "O" -> "o"
    [] OTHER -> c

\* str.lower
Lower(s) == [i \in 1..Len(s) |-> LowerChar(s[i])]

RECURSIVE LStrip(_)
LStrip(s) == IF Len(s) > 0 /\ IsSpace(s[1]) THEN LStrip(Tail(s)) ELSE s

RECURSIVE RStrip(_)
RStrip(s) ==
  IF Len(s) > 0 /\ IsSpace(s[Len(s)])
    THEN RStrip(SubSeq(s, 1, Len(s) - 1))
    ELSE s

\* str.strip
Strip(s) == RStrip(LStrip(s))

RECURSIVE DecVal(_)
DecVal(ds) ==
  IF Len(ds) = 0
    THEN 0
    ELSE 10 * DecVal(SubSeq(ds, 1, Len(ds) - 1)) + DigitVal(ds[Len(ds)])

\* int(s) for a str s: surrounding whitespace is dropped, one sign is
\* allowed, the rest must be a non-empty run of digits; anything else is a
\* ValueError (ok = FALSE).
PyInt(s) ==
  LET t == Strip(s)
      signed == Len(t) > 0 /\ t[1] \in {"-", "+"}
      body == IF signed THEN Tail(t) ELSE t
  IN  IF Len(body) > 0 /\ \A i \in 1..Len(body) : IsDigit(body[i])
        THEN [ok |-> TRUE,
              val |-> IF signed /\ t[1] = "-" THEN 0 - DecVal(body)
                                              ELSE DecVal(body)]
        ELSE [ok |-> FALSE, val |-> 0]

----------------------------------------------------------------------------
(* cast *)

Returned(value) == [ret |-> value, exc |-> "none", printed |-> 0]
Raised(name) == [ret |-> None, exc |-> name, printed |-> 0]
\* lines 116-117: print the diagnostic, return current
Problem(current) == [ret |-> current, exc |-> "none", printed |-> 1]

\* lines 103-110: the second try block of the bool branch.  Only
\* AttributeError is caught there; new[0] on an empty str is an IndexError.
cast_bool_words(current, new) ==
  LET low == Lower(new) IN
  IF low = <<"o", "n">> THEN Returned(BoolVal(TRUE))
  ELSE IF Len(low) = 0 THEN Raised("IndexError")
  ELSE IF low[1] \in {"y", "t"} THEN Returned(BoolVal(TRUE))
  ELSE IF low = <<"o", "f", "f">> THEN Returned(BoolVal(FALSE))
  ELSE IF low[1] \in {"n", "f"} THEN Returned(BoolVal(FALSE))
  ELSE Problem(current)

cast(current, new) ==
  IF current.typ = "bool"
    THEN IF PyInt(new).ok
           THEN Returned(BoolVal(PyInt(new).val # 0))
           ELSE cast_bool_words(current, new)
  ELSE IF current.typ = "int"
    THEN IF PyInt(new).ok
           THEN Returned(IntVal(PyInt(new).val))
           ELSE Problem(current)
  ELSE Returned(StrVal(new))

----------------------------------------------------------------------------
(* The caller of cast *)

InitCast ==
  /\ \E new \in Strs(CastAlphabet, MaxNewLen) :
       \/ \E b \in BOOLEAN : args = <<BoolVal(b), new>>
       \/ args = <<IntVal(5), new>>
       \/ args = <<StrVal(<<"x">>), new>>
  /\ ops = <<>>
  /\ vals = <<>>
  /\ exc = "none"
  /\ stdout = 0
  /\ env = NoEnv

CallCast ==
  /\ ops = <<>>
  /\ LET r == cast(args[1], args[2]) IN
       /\ vals' = IF r.exc = "none" THEN <<r.ret>> ELSE <<>>
       /\ exc' = r.exc
       /\ stdout' = stdout + r.printed
  /\ ops' = <<"cast">>
  /\ UNCHANGED <<args, env>>

NextCast == CallCast

SpecCast == InitCast /\ [][NextCast]_vars

----------------------------------------------------------------------------
(* remove_duplicates *)

\* lines 181-183: assigning to a key the OrderedDict already holds leaves
\* the key where it is
RECURSIVE OrderedDictKeys(_, _)
OrderedDictKeys(keys, items) ==
  IF Len(items) = 0
    THEN keys
    ELSE LET item == Head(items) IN
         OrderedDictKeys(
           IF \E i \in 1..Len(keys) : keys[i] = item
             THEN keys
             ELSE Append(keys, item),
           Tail(items))

\* remove_duplicates that keeps the last occurrence of each item
RECURSIVE remove_duplicates_keep_last(_)
remove_duplicates_keep_last(list_to_prune) ==
  IF Len(list_to_prune) = 0
    THEN <<>>
    ELSE LET rest == Tail(list_to_prune) IN
         IF \E i \in 1..Len(rest) : rest[i] = Head(list_to_prune)
           THEN remove_duplicates_keep_last(rest)
           ELSE <<Head(list_to_prune)>> \o remove_duplicates_keep_last(rest)

remove_duplicates(list_to_prune) == OrderedDictKeys(<<>>, list_to_prune)

InitDedup ==
  /\ args \in {<<l>> : l \in Strs(1..MaxItem, MaxDupLen)}
  /\ ops = <<>>
  /\ vals = <<>>
  /\ exc = "none"
  /\ stdout = 0
  /\ env = NoEnv

CallRemoveDuplicates ==
  /\ ops = <<>>
  /\ ops' = <<"remove_duplicates">>
  /\ vals' = <<remove_duplicates(args[1])>>
  /\ UNCHANGED <<args, exc, stdout, env>>

NextDedup == CallRemoveDuplicates

SpecDedup == InitDedup /\ [][NextDedup]_vars

----------------------------------------------------------------------------
(* norm_fold, try_int_or_force_to_lower_case, natural_keys *)

\* ord(c)
Ord(c) ==
  CASE c = SP -> 32
    [] c = "-" -> 45
    [] c = "0" -> 48
    [] c = "1" -> 49
    [] c = "2" -> 50
    [] c = "A" -> 65
    [] c = "a" -> 97

\* on the characters of the model NFC changes nothing and casefold is lower
norm_fold(astr) == Lower(astr)

\* how many leading characters of s are (isDigit = TRUE) or are not digits
RECURSIVE RunLen(_, _)
RunLen(s, isDigit) ==
  IF Len(s) > 0 /\ (IsDigit(s[1]) <=> isDigit)
    THEN 1 + RunLen(Tail(s), isDigit)
    ELSE 0

\* re.split('(\d+)', s): the text before each digit run, the digit run (the
\* group is captured), ..., the text after the last digit run; a text is
\* empty where the string starts or ends with a digit run or is empty
RECURSIVE re_split_digits(_)
re_split_digits(s) ==
  LET k == RunLen(s, FALSE)
      text == SubSeq(s, 1, k)
      rest == SubSeq(s, k + 1, Len(s))
      d == RunLen(rest, TRUE)
  IN  IF Len(rest) = 0
        THEN <<text>>
        ELSE <<text, SubSeq(rest, 1, d)>>
               \o re_split_digits(SubSeq(rest, d + 1, Len(rest)))

\* try_int_or_force_to_lower_case with the int() attempt left out
force_to_lower_case(input_str) == StrVal(norm_fold(input_str))

\* try_int_or_force_to_lower_case reading the empty string as 0
try_int_empty_is_zero(input_str) ==
  IF Len(input_str) = 0 THEN IntVal(0)
  ELSE IF PyInt(input_str).ok
    THEN IntVal(PyInt(input_str).val)
    ELSE StrVal(norm_fold(input_str))

try_int_or_force_to_lower_case(input_str) ==
  IF PyInt(input_str).ok
    THEN IntVal(PyInt(input_str).val)
    ELSE StrVal(norm_fold(input_str))

natural_keys(input_str) ==
  LET parts == re_split_digits(input_str) IN
  [i \in 1..Len(parts) |-> try_int_or_force_to_lower_case(parts[i])]

InitKeys ==
  /\ args \in {<<a, b>> : a, b \in Strs(KeyAlphabet, MaxSplitLen)}
  /\ ops = <<>>
  /\ vals = <<>>
  /\ exc = "none"
  /\ stdout = 0
  /\ env = NoEnv

\* the key function is called on each of the strings, as sorted() does
CallNaturalKeys ==
  /\ ops = <<>>
  /\ ops' = <<"natural_keys", "natural_keys">>
  /\ vals' = <<natural_keys(args[1]), natural_keys(args[2])>>
  /\ UNCHANGED <<args, exc, stdout, env>>

NextKeys == CallNaturalKeys

SpecKeys == InitKeys /\ [][NextKeys]_vars

----------------------------------------------------------------------------
(* natural_sort: sorted(list_to_sort, key=natural_keys) *)

\* a < b for two str
RECURSIVE StrLess(_, _)
StrLess(a, b) ==
  IF Len(b) = 0 THEN FALSE
  ELSE IF Len(a) = 0 THEN TRUE
  ELSE IF a[1] = b[1] THEN StrLess(Tail(a), Tail(b))
  ELSE Ord(a[1]) < Ord(b[1])

\* x < y for two key elements: "lt", "ge", or "TypeError" for an int
\* against a str
ElemLess(x, y) ==
  IF x.typ # y.typ THEN "TypeError"
  ELSE IF x.typ = "int" THEN (IF x.v < y.v THEN "lt" ELSE "ge")
  ELSE (IF StrLess(x.v, y.v) THEN "lt" ELSE "ge")

\* k1 < k2 for two lists: the first pair of unequal elements decides, a
\* proper prefix is smaller
RECURSIVE ListLess(_, _)
ListLess(k1, k2) ==
  IF Len(k2) = 0 THEN "ge"
  ELSE IF Len(k1) = 0 THEN "lt"
  ELSE IF SameValue(k1[1], k2[1]) THEN ListLess(Tail(k1), Tail(k2))
  ELSE ElemLess(k1[1], k2[1])

\* one step of a stable insertion: x goes behind every element it is not
\* smaller than
RECURSIVE InsertByKey(_, _)
InsertByKey(sortedSoFar, x) ==
  IF Len(sortedSoFar) = 0
    THEN <<x>>
    ELSE LET last == sortedSoFar[Len(sortedSoFar)] IN
         IF ListLess(natural_keys(x), natural_keys(last)) = "lt"
           THEN Append(
                  InsertByKey(SubSeq(sortedSoFar, 1, Len(sortedSoFar) - 1), x),
                  last)
           ELSE Append(sortedSoFar, x)

RECURSIVE SortedByKey(_)
SortedByKey(l) ==
  IF Len(l) = 0
    THEN <<>>
    ELSE InsertByKey(SortedByKey(SubSeq(l, 1, Len(l) - 1)), l[Len(l)])

\* a comparison sorted() may make raises TypeError
KeysIncomparable(l) ==
  \E i, j \in 1..Len(l) :
    ListLess(natural_keys(l[i]), natural_keys(l[j])) = "TypeError"

natural_sort(list_to_sort) ==
  IF KeysIncomparable(list_to_sort)
    THEN Raised("TypeError")
    ELSE Returned(SortedByKey(list_to_sort))

InitSort ==
  /\ args \in {<<l>> : l \in Lists(SortAlphabet, MaxSortSize)}
  /\ ops = <<>>
  /\ vals = <<>>
  /\ exc = "none"
  /\ stdout = 0
  /\ env = NoEnv

CallNaturalSort ==
  /\ ops = <<>>
  /\ LET r == natural_sort(args[1]) IN
       /\ vals' = IF r.exc = "none" THEN <<r.ret>> ELSE <<>>
       /\ exc' = r.exc
  /\ ops' = <<"natural_sort">>
  /\ UNCHANGED <<args, stdout, env>>

NextSort == CallNaturalSort

SpecSort == InitSort /\ [][NextSort]_vars

----------------------------------------------------------------------------
(* bytes: strip and the strict ascii and utf-8 codecs *)

\* the bytes that bytes.strip removes: \t \n \v \f \r and space
IsSpaceByte(b) == b \in {9, 10, 11, 12, 13, 32}

RECURSIVE BytesLStrip(_)
BytesLStrip(b) ==
  IF Len(b) > 0 /\ IsSpaceByte(b[1]) THEN BytesLStrip(Tail(b)) ELSE b

RECURSIVE BytesRStrip(_)
BytesRStrip(b) ==
  IF Len(b) > 0 /\ IsSpaceByte(b[Len(b)])
    THEN BytesRStrip(SubSeq(b, 1, Len(b) - 1))
    ELSE b

BytesStrip(b) == BytesRStrip(BytesLStrip(b))

DecodeError == [ok |-> FALSE, text |-> <<>>]

\* the text is the sequence of code points
AsciiDecode(b) ==
  IF \A i \in 1..Len(b) : b[i] < 128
    THEN [ok |-> TRUE, text |-> b]
    ELSE DecodeError

IsContinuation(x) == 128 <= x /\ x <= 191

\* how many continuation bytes follow the lead byte x; -1 for a byte that
\* cannot lead
Utf8Following(x) ==
  IF x < 128 THEN 0
  ELSE IF 194 <= x /\ x <= 223 THEN 1
  ELSE IF 224 <= x /\ x <= 239 THEN 2
  ELSE IF 240 <= x /\ x <= 244 THEN 3
  ELSE -1

\* the second byte's range is narrower after E0, ED, F0 and F4 (no overlong
\* forms, no surrogates, nothing above U+10FFFF)
Utf8SecondOk(lead, x) ==
  CASE lead = 224 -> 160 <= x /\ x <= 191
    [] lead = 237 -> 128 <= x /\ x <= 159
    [] lead = 240 -> 144 <= x /\ x <= 191
    [] lead = 244 -> 128 <= x /\ x <= 143
    [] OTHER -> IsContinuation(x)

Utf8LeadBits(x) ==
  IF x < 128 THEN x
  ELSE IF x <= 223 THEN x - 192
  ELSE IF x <= 239 THEN x - 224
  ELSE x - 240

RECURSIVE Utf8CodePoint(_, _)
Utf8CodePoint(acc, cont) ==
  IF Len(cont) = 0
    THEN acc
    ELSE Utf8CodePoint(acc * 64 + (cont[1] - 128), Tail(cont))

\* The utf-8 decoder under errors='strict'.  final = TRUE is bytes.decode:
\* the whole input must decode.  final = FALSE is the codecs.StreamReader
\* that codecs.open returns: it decodes what it has read with final left
\* unset and keeps the bytes of an unfinished sequence for the next read,
\* so a sequence cut short by the end of the file is never reported.  Of an
\* unfinished sequence the bytes present are still checked, except that
\* the surrogate range after ED is only found out on the third byte.
RECURSIVE Utf8Decode(_, _)
Utf8Decode(b, final) ==
  IF Len(b) = 0 THEN [ok |-> TRUE, text |-> <<>>]
  ELSE
    LET n == Utf8Following(b[1]) IN
    IF n < 0 THEN DecodeError
    ELSE
      LET have == IF Len(b) < n + 1 THEN Len(b) - 1 ELSE n
          cont == SubSeq(b, 2, have + 1)
          cut == have < n
      IN
      IF ~(\A i \in 1..have : IsContinuation(cont[i])) THEN DecodeError
      ELSE IF cut
        THEN IF final THEN DecodeError
             ELSE IF have > 0 /\ b[1] # 237 /\ ~Utf8SecondOk(b[1], cont[1])
               THEN DecodeError
             ELSE [ok |-> TRUE, text |-> <<>>]
      ELSE IF n > 0 /\ ~Utf8SecondOk(b[1], cont[1]) THEN DecodeError
      ELSE LET rest == Utf8Decode(SubSeq(b, n + 2, Len(b)), final) IN
           IF rest.ok
             THEN [ok |-> TRUE,
                   text |-> <<Utf8CodePoint(Utf8LeadBits(b[1]), cont)>>
                              \o rest.text]
             ELSE DecodeError

----------------------------------------------------------------------------
(* which *)

\* env.status is how subprocess.check_output ended: "exit0" with the output
\* of the which program, "nonzero" (CalledProcessError), or "oserror" (the
\* program could not be started: FileNotFoundError, PermissionError)
which(editor, e) ==
  IF e.status = "oserror" THEN Raised("OSError")
  ELSE IF e.status = "nonzero" THEN Returned(None)
  ELSE LET editor_path == Utf8Decode(BytesStrip(e.output), TRUE) IN
       IF editor_path.ok
         THEN Returned(StrVal(editor_path.text))
         ELSE Raised("UnicodeDecodeError")

InitWhich ==
  /\ args = <<StrVal(<<"v", "i">>)>>
  /\ \/ \E st \in {"oserror", "nonzero"} :
          env = [kind |-> "subprocess", status |-> st, output |-> <<>>]
     \/ \E out \in Strs(ByteAlphabet, MaxFileLen) :
          env = [kind |-> "subprocess", status |-> "exit0", output |-> out]
  /\ ops = <<>>
  /\ vals = <<>>
  /\ exc = "none"
  /\ stdout = 0

CallWhich ==
  /\ ops = <<>>
  /\ env.kind = "subprocess"
  /\ LET r == which(args[1], env) IN
       /\ vals' = IF r.exc = "none" THEN <<r.ret>> ELSE <<>>
       /\ exc' = r.exc
  /\ ops' = <<"which">>
  /\ UNCHANGED <<args, stdout, env>>

----------------------------------------------------------------------------
(* is_text_file *)

\* sum(1 for line in f): a line ends at a line feed; what follows the last
\* line feed is a line when it is not empty
LineCount(text) ==
  Cardinality({i \in 1..Len(text) : text[i] = 10})
    + (IF Len(text) > 0 /\ text[Len(text)] # 10 THEN 1 ELSE 0)

\* env.io says which attempt to open and read the file ends in an OSError:
\* "ok" none, "first" the one under ascii, "second" the one under utf-8 (the
\* file went away in between)
is_text_file(file_path, e) ==
  IF e.io = "first" THEN Returned(BoolVal(FALSE))
  ELSE IF AsciiDecode(e.content).ok
    THEN Returned(BoolVal(LineCount(AsciiDecode(e.content).text) > 0))
  ELSE IF e.io = "second" THEN Returned(BoolVal(FALSE))
  ELSE IF Utf8Decode(e.content, FALSE).ok
    THEN Returned(BoolVal(LineCount(Utf8Decode(e.content, FALSE).text) > 0))
  ELSE Returned(BoolVal(FALSE))

InitFile ==
  /\ args = <<StrVal(<<"f">>)>>
  /\ \E c \in Strs(ByteAlphabet, MaxFileLen), io \in {"ok", "first", "second"} :
       env = [kind |-> "file", io |-> io, content |-> c]
  /\ ops = <<>>
  /\ vals = <<>>
  /\ exc = "none"
  /\ stdout = 0

CallIsTextFile ==
  /\ ops = <<>>
  /\ env.kind = "file"
  /\ LET r == is_text_file(args[1], env) IN
       /\ vals' = IF r.exc = "none" THEN <<r.ret>> ELSE <<>>
       /\ exc' = r.exc
  /\ ops' = <<"is_text_file">>
  /\ UNCHANGED <<args, stdout, env>>

InitEnv == InitWhich \/ InitFile

NextEnv == CallWhich \/ CallIsTextFile

SpecEnv == InitEnv /\ [][NextEnv]_vars

----------------------------------------------------------------------------
(* Properties of the quote helpers (checked under SpecStrings) *)

\* the argument of the i-th call
Input(i) == IF i = 1 THEN args[1] ELSE vals[i - 1]

Wrapped(q, s) == <<q>> \o s \o <<q>>

\* first and last character are the same quote character
AlreadyQuoted(s) ==
  /\ Len(s) >= 2
  /\ s[1] = s[Len(s)]
  /\ s[1] = DQ \/ s[1] = SQ

\* a quoted string whose content between the quotes is quoted again
DoublyQuoted(s) ==
  /\ Len(s) >= 4
  /\ AlreadyQuoted(s)
  /\ AlreadyQuoted(SubSeq(s, 2, Len(s) - 1))

NoQuoteChars(s) == \A i \in 1..Len(s) : s[i] # DQ /\ s[i] # SQ

\* C2 as stated: every string with a space and no double quote comes back
\* wrapped in double quotes, every string with a space and a double quote
\* comes back wrapped in single quotes.
C2_AsStated ==
  \A i \in 1..Len(ops) :
    ops[i] = "quote_string_if_needed" =>
      LET s == Input(i) IN
      /\ (Contains(s, SP) /\ ~Contains(s, DQ)) => vals[i] = Wrapped(DQ, s)
      /\ (Contains(s, SP) /\ Contains(s, DQ)) => vals[i] = Wrapped(SQ, s)

\* C2 amended: the wrapping happens for the strings that are not already
\* quoted; an already quoted string comes back unchanged, space or not.
C2_NotAlreadyQuoted ==
  \A i \in 1..Len(ops) :
    ops[i] = "quote_string_if_needed" =>
      LET s == Input(i) IN
      /\ (~AlreadyQuoted(s) /\ Contains(s, SP) /\ ~Contains(s, DQ))
           => vals[i] = Wrapped(DQ, s)
      /\ (~AlreadyQuoted(s) /\ Contains(s, SP) /\ Contains(s, DQ))
           => vals[i] = Wrapped(SQ, s)
      /\ AlreadyQuoted(s) => vals[i] = s

\* a string with a space and a double quote, not already quoted, was quoted
C2_Witness ==
  /\ ops = <<"quote_string_if_needed">>
  /\ Contains(args[1], SP)
  /\ Contains(args[1], DQ)
  /\ ~AlreadyQuoted(args[1])
  /\ vals[1] = Wrapped(SQ, args[1])

\* C3: strip_quotes(quote_string_if_needed(s)) = s for every s that holds
\* neither quote character.
C3_RoundTrip ==
  \A i \in 1..(Len(ops) - 1) :
    (/\ ops[i] = "quote_string_if_needed"
     /\ ops[i + 1] = "strip_quotes"
     /\ NoQuoteChars(Input(i)))
      => vals[i + 1] = Input(i)

\* a string with a space and no quote character was quoted, then stripped
C3_Witness ==
  /\ ops = <<"quote_string_if_needed", "strip_quotes">>
  /\ NoQuoteChars(args[1])
  /\ Contains(args[1], SP)
  /\ vals[1] = Wrapped(DQ, args[1])
  /\ vals[2] = args[1]

\* C10 as stated: a second strip_quotes changes nothing.
C10_AsStated ==
  \A i \in 1..(Len(ops) - 1) :
    (ops[i] = "strip_quotes" /\ ops[i + 1] = "strip_quotes")
      => vals[i + 1] = vals[i]

\* C10 amended: a second strip_quotes changes nothing exactly when the
\* argument is not doubly quoted; on a doubly quoted one it strips the
\* second pair.
C10_UnlessDoublyQuoted ==
  \A i \in 1..(Len(ops) - 1) :
    (ops[i] = "strip_quotes" /\ ops[i + 1] = "strip_quotes")
      => /\ ~DoublyQuoted(Input(i)) => vals[i + 1] = vals[i]
         /\ DoublyQuoted(Input(i))
              => vals[i + 1] = SubSeq(Input(i), 3, Len(Input(i)) - 2)

\* a quoted, not doubly quoted string was stripped twice
C10_Witness ==
  /\ ops = <<"strip_quotes", "strip_quotes">>
  /\ AlreadyQuoted(args[1])
  /\ ~DoublyQuoted(args[1])
  /\ vals[1] # args[1]
  /\ vals[2] = vals[1]

----------------------------------------------------------------------------
(* Properties of cast (checked under SpecCast) *)

\* C1: cast never lets an exception escape; when it prints its diagnostic
\* it prints it once and returns current unchanged.
C1_NeverRaises ==
  ops = <<"cast">> =>
    /\ exc = "none"
    /\ Len(vals) = 1
    /\ stdout > 0 => (stdout = 1 /\ SameValue(vals[1], args[1]))

SaysTrue(new) ==
  \/ new = <<"1">>
  \/ Lower(new) = <<"o", "n">>
  \/ Len(new) > 0 /\ Lower(new)[1] \in {"y", "t"}

SaysFalse(new) ==
  \/ new = <<"0">>
  \/ Lower(new) = <<"o", "f", "f">>
  \/ Len(new) > 0 /\ Lower(new)[1] \in {"n", "f"}

\* C4: for a bool current, cast returns True on "1", on/ON, y.../t...,
\* False on "0", off/OFF, n.../f..., and current on every other string.
C4_ExactVocabulary ==
  (ops = <<"cast">> /\ args[1].typ = "bool") =>
    /\ exc = "none"
    /\ Len(vals) = 1
    /\ vals[1].typ = "bool"
    /\ vals[1].v = (IF SaysTrue(args[2]) THEN TRUE
                    ELSE IF SaysFalse(args[2]) THEN FALSE
                    ELSE args[1].v)

----------------------------------------------------------------------------
(* Properties of remove_duplicates (checked under SpecDedup) *)

FirstIndex(l, x) == CHOOSE i \in 1..Len(l) :
                      l[i] = x /\ \A j \in 1..(i - 1) : l[j] # x

\* C5: a call of remove_duplicates leaves its argument as it was, and the
\* result holds each distinct item of the list exactly once, in the order of
\* the items' first occurrences.
C5_FirstOccurrences ==
  [][(ops = <<>> /\ ops' = <<"remove_duplicates">>) =>
       LET l == args[1]
           r == vals'[1]
       IN  /\ args' = args
           /\ {r[i] : i \in 1..Len(r)} = {l[i] : i \in 1..Len(l)}
           /\ \A i, j \in 1..Len(r) : i # j => r[i] # r[j]
           /\ \A i, j \in 1..Len(r) :
                i < j => FirstIndex(l, r[i]) < FirstIndex(l, r[j])]_vars

\* an item came again after a different one: [x, y, x, ...]
C5_Witness ==
  /\ ops = <<"remove_duplicates">>
  /\ Len(args[1]) >= 3
  /\ args[1][1] = args[1][3]
  /\ args[1][1] # args[1][2]
  /\ vals[1][1] = args[1][1]
  /\ vals[1][2] = args[1][2]

----------------------------------------------------------------------------
(* Properties of natural_keys (checked under SpecKeys) *)

----------------------------------------------------------------------------
(* Properties of natural_sort (checked under SpecSort) *)

\* The natural key, read off the string character by character: a str
\* part, then alternately an int part for each run of digits and a str part
\* for the characters up to the next run; letters are folded to lower case.
TextPart(s) == [num |-> FALSE, n |-> 0, text |-> s]
NumPart(n) == [num |-> TRUE, n |-> n, text |-> <<>>]

Folded(c) == IF c = "A" THEN "a" ELSE c

RECURSIVE ScanKey(_, _)
ScanKey(parts, s) ==
  LET last == parts[Len(parts)]
      front == SubSeq(parts, 1, Len(parts) - 1)
  IN
  IF Len(s) = 0
    THEN IF last.num THEN Append(parts, TextPart(<<>>)) ELSE parts
  ELSE IF s[1] \in {"0", "1", "2"}
    THEN LET d == IF s[1] = "0" THEN 0 ELSE IF s[1] = "1" THEN 1 ELSE 2 IN
         IF last.num
           THEN ScanKey(Append(front, NumPart(10 * last.n + d)), Tail(s))
           ELSE ScanKey(Append(parts, NumPart(d)), Tail(s))
  ELSE IF last.num
         THEN ScanKey(Append(parts, TextPart(<<Folded(s[1])>>)), Tail(s))
         ELSE ScanKey(Append(front, TextPart(Append(last.text, Folded(s[1])))),
                      Tail(s))

NaturalKey(s) == ScanKey(<<TextPart(<<>>)>>, s)

\* -1, 0, 1: text against text by code point, number against number by value
PartCmp(x, y) ==
  IF x.num
    THEN (IF x.n < y.n THEN -1 ELSE IF x.n > y.n THEN 1 ELSE 0)
    ELSE (IF x.text = y.text THEN 0
          ELSE IF StrLess(x.text, y.text) THEN -1 ELSE 1)

RECURSIVE KeyCmp(_, _)
KeyCmp(k1, k2) ==
  IF Len(k1) = 0 /\ Len(k2) = 0 THEN 0
  ELSE IF Len(k1) = 0 THEN -1
  ELSE IF Len(k2) = 0 THEN 1
  ELSE IF PartCmp(k1[1], k2[1]) # 0 THEN PartCmp(k1[1], k2[1])
  ELSE KeyCmp(Tail(k1), Tail(k2))

Perms(n) == {p \in [1..n -> 1..n] : \A i, j \in 1..n : i # j => p[i] # p[j]}

\* C7: the result is the list rearranged so that keys never decrease, and
\* elements with equal keys stay in their input order.
C7_StableNaturalOrder ==
  ops = <<"natural_sort">> =>
    /\ exc = "none"
    /\ Len(vals) = 1
    /\ LET l == args[1]
           r == vals[1]
       IN  /\ Len(r) = Len(l)
           /\ \E p \in Perms(Len(l)) :
                /\ \A i \in 1..Len(l) : r[i] = l[p[i]]
                /\ \A i, j \in 1..Len(l) :
                     i < j =>
                       LET c == KeyCmp(NaturalKey(r[i]), NaturalKey(r[j])) IN
                       c < 0 \/ (c = 0 /\ p[i] < p[j])

\* "11" was moved behind "2"
C7_Witness ==
  /\ ops = <<"natural_sort">>
  /\ args[1] = << <<"1", "1">>, <<"2">> >>
  /\ vals[1] = << <<"2">>, <<"1", "1">> >>

----------------------------------------------------------------------------
(* Properties of which and is_text_file (checked under SpecEnv) *)

\* C6: whichever way the lookup ends, which returns a path or None and no
\* exception escapes.
C6_NeverRaises ==
  ops = <<"which">> =>
    /\ exc = "none"
    /\ Len(vals) = 1
    /\ vals[1].typ \in {"str", "NoneType"}

\* C8: is_text_file never raises; it returns True exactly when every open
\* it made succeeded, the content is not empty and the whole of it decodes
\* as ASCII or, failing that, as UTF-8.
C8_TextExactly ==
  ops = <<"is_text_file">> =>
    /\ exc = "none"
    /\ Len(vals) = 1
    /\ vals[1].typ = "bool"
    /\ vals[1].v <=>
         /\ Len(env.content) > 0
         /\ \/ /\ env.io # "first"
               /\ \A i \in 1..Len(env.content) : env.content[i] < 128
            \/ /\ env.io = "ok"
               /\ Utf8Decode(env.content, TRUE).ok

====
